---- MODULE Spec2Model ----
(***************************************************************************)
(* State-machine model of VimbaXCamera's streaming engine                  *)
(* (vimbax_camera/src/vimbax_camera.cpp): start_streaming, stop_streaming, *)
(* feature_command_run and the frame completion callback, together with    *)
(* the part of the VmbC capture subsystem these functions drive (the set   *)
(* of announced frames, the capture queue, the capture engine and the      *)
(* completion callbacks in flight).                                        *)
(*                                                                         *)
(* One caller thread executes start_streaming / stop_streaming, one        *)
(* subsystem call per step.  Completion callbacks run on subsystem         *)
(* threads and interleave freely with the caller thread.  Every subsystem  *)
(* call may fail: its outcome is chosen nondeterministically.  The         *)
(* destructor runs stop_streaming and closes the camera.  (Spec)           *)
(*                                                                         *)
(* A second specification, FrameSpec, follows the completion callback of   *)
(* one successfully completed frame statement by statement through         *)
(* Frame::on_frame_ready, with get_image_encoding, timestamp_to_ns (on     *)
(* 64-bit unsigned integers) and transform computed as the code computes   *)
(* them, for frames drawn from bounded sets of formats, images,            *)
(* timestamps and device frequencies.                                      *)
(***************************************************************************)
EXTENDS Integers, Sequences, FiniteSets, TLC

(* ------------------------------ bounds --------------------------------- *)

\* largest bufferCount passed to start_streaming
MaxBufferCount == 2

\* number of Frame objects that exist or are known to the subsystem at a time
MaxFrames == 2

\* number of frames the device completes successfully per start_streaming
MaxDeliveries == 3

\* longest image, in 16-bit samples, a completed frame carries
MaxSamples == 2

\* iterations of the polling loop of feature_command_run that are counted;
\* further iterations are made but no longer counted
MaxPolls == 2

(* ------------------------------ state ---------------------------------- *)

VARIABLES
  streaming_,       \* VimbaXCamera::streaming_
  frames_,          \* VimbaXCamera::frames_ : sequence of frame ids, 0 = null shared_ptr
  onFrame,          \* Frame::callback_ of the pooled frames: what the consumer does
  pc,               \* position of the caller thread; "crashed" once the process died
  op,               \* the call in progress, or the last call that returned
  res,              \* result of the last call that returned, "pending" while a call runs
  entryStreaming,   \* value of streaming_ when the call `op` was entered
  afterStart,       \* the call `op` directly follows a start_streaming that returned success
  bufferCount,      \* parameter of the current / last start_streaming
  startAcquisition, \* parameter of the current / last start_streaming
  idx,              \* position of the range-for loops over frames_
  done,             \* local `done` of feature_command_run
  polls,            \* iterations of `while (!done)` begun by the feature_command_run
                    \* that is running (counted up to MaxPolls), 0 when none runs
  steps,            \* what the call `op` has done so far, in order
  announced,        \* frames announced to the capture subsystem (VmbFrameAnnounce)
  queued,           \* frames in the subsystem's capture queue (VmbCaptureFrameQueue)
  inflight,         \* completion callbacks running: pairs <<frame, receiveStatus>>
  capRunning,       \* capture engine started (VmbCaptureStart .. VmbCaptureEnd)
  held,             \* frames handed to the consumer and not queued again since
  delivered,        \* consumer invocations since the pool was last rebuilt
  lastRequeue,      \* result of the last Frame::queue() made inside a completion callback:
                    \* "none" (none since the pool was rebuilt), "ok" or "failed"
  \* one Frame object while its completion callback runs, statement by statement
  vmb_frame_,       \* Frame::vmb_frame_ as the subsystem filled it
  frameObj,         \* Frame::callback_ (set or empty), camera_ (expired or not),
                    \* allocation_mode_
  device,           \* what FeatureIntGet("DeviceTimestampFrequency") answers
  msg,              \* the sensor_msgs::Image part of the Frame
  fpc,              \* position inside vmb_frame_callback / on_frame_ready
  invoked,          \* calls of callback_ made by the running completion callback
  seen,             \* the message as it was when callback_ was called
  \* a second thread that calls start_streaming / stop_streaming
  other             \* the locals of the caller thread that is not running

frameVars == << vmb_frame_, frameObj, device, msg, fpc, invoked, seen >>

engineVars == << streaming_, frames_, onFrame, pc, op, res, entryStreaming, afterStart,
                 bufferCount, startAcquisition, idx, done, polls, steps,
                 announced, queued, inflight, capRunning, held, delivered,
                 lastRequeue >>

\* what the calls of the caller thread leave alone
restVars == << frameVars, other >>

vars == << engineVars, frameVars, other >>

callerVars == << streaming_, frames_, onFrame, pc, op, res, entryStreaming, afterStart,
                 bufferCount, startAcquisition, idx, done, polls, steps >>

subsystemVars == << announced, queued, inflight, capRunning >>

consumerVars == << held, delivered, lastRequeue >>

(* ----------------------------- helpers --------------------------------- *)

FrameIds == 1 .. MaxFrames

\* VmbFrameStatusComplete and "any other receiveStatus"
FrameStatus == {"Complete", "Incomplete"}

\* the consumer passed as onFrame: the node's callback queues the frame again
\* before it returns ("requeue"); another consumer may only read it ("keep")
Consumers == {"requeue", "keep"}

VmbErrorSuccess == "VmbErrorSuccess"

\* the Frame objects owned by the pool (non-null entries of frames_)
PoolFrames == { frames_[k] : k \in 1 .. Len(frames_) } \ {0}

\* a Frame object exists as long as the pool holds its shared_ptr
Alive(f) == f \in PoolFrames

\* identities no Frame object and no registration of the subsystem uses once the
\* pool is cleared
FreeIds == FrameIds \ (announced \cup queued \cup { p[1] : p \in inflight })

\* the identity of a newly created Frame object
NewFrame == CHOOSE f \in FreeIds \ PoolFrames :
              \A g \in FreeIds \ PoolFrames : f <= g

\* frames_.resize(n) on the cleared vector: n null shared_ptrs
NullFrames(n) == [k \in 1 .. n |-> 0]

\* Frame::queue: api_->CaptureFrameQueue succeeds only for an announced frame
QueueOk(f, ok) == ok /\ f \in announced

\* the caller thread returns r from the call in progress: to its caller, or to
\* ~VimbaXCamera when the destructor made the call
Return(r) == /\ pc' = IF op = "destroy" THEN "dtor_close" ELSE "idle"
             /\ res' = r

(* ----------------------- VimbaXCamera::start_streaming ----------------- *)

\* faulty variant: the pool is rebuilt without looking at streaming_
start_streaming_Restart(n, cb, acq) ==
  /\ pc = "idle"
  /\ op' = "start"
  /\ entryStreaming' = streaming_
  /\ afterStart' = FALSE
  /\ steps' = << >>
  /\ Cardinality(FreeIds) >= n
  /\ frames_' = NullFrames(n)
  /\ onFrame' = cb
  /\ bufferCount' = n
  /\ startAcquisition' = acq
  /\ pc' = "start_payload"
  /\ held' = {}
  /\ delivered' = 0
  /\ lastRequeue' = "none"
  /\ res' = "pending"
  /\ UNCHANGED << streaming_, idx, done, polls >>
  /\ UNCHANGED subsystemVars
  /\ UNCHANGED restVars

\* entry of start_streaming: the streaming_ test, frames_.clear(), frames_.resize()
start_streaming(n, cb, acq) ==
  /\ pc = "idle"
  /\ op' = "start"
  /\ entryStreaming' = streaming_
  /\ afterStart' = FALSE
  /\ steps' = << >>
  /\ IF streaming_
       THEN /\ Return(VmbErrorSuccess)
            /\ UNCHANGED << streaming_, frames_, onFrame, bufferCount,
                            startAcquisition, idx, done, polls, consumerVars >>
       ELSE /\ Cardinality(FreeIds) >= n
            /\ frames_' = NullFrames(n)
            /\ onFrame' = cb
            /\ bufferCount' = n
            /\ startAcquisition' = acq
            /\ pc' = "start_payload"
            /\ held' = {}
            /\ delivered' = 0
            /\ lastRequeue' = "none"
            /\ res' = "pending"
            /\ UNCHANGED << streaming_, idx, done, polls >>
  /\ UNCHANGED subsystemVars
  /\ UNCHANGED restVars

\* api_->PayloadSizeGet
start_PayloadSizeGet ==
  /\ pc = "start_payload"
  /\ steps' = Append(steps, "PayloadSizeGet")
  /\ \E ok \in BOOLEAN :
       IF ok THEN /\ pc' = "start_create"
                  /\ idx' = 1
                  /\ UNCHANGED res
             ELSE /\ Return("PayloadSizeError")
                  /\ UNCHANGED idx
  /\ UNCHANGED << streaming_, frames_, onFrame, op, entryStreaming, afterStart,
                  bufferCount, startAcquisition, done, polls,
                  subsystemVars, consumerVars >>
  /\ UNCHANGED restVars

\* one iteration of `for (auto & frame : frames_)`: Frame::create (the feature
\* reads, the Frame object, api_->FrameAnnounce), then frame = *newFrame and
\* frame->set_callback(onFrame)
start_Frame_create ==
  /\ pc = "start_create"
  /\ \E r \in {"ok", "FeatureError", "AnnounceError"} :
       /\ steps' = IF r = "FeatureError" THEN steps ELSE Append(steps, "FrameAnnounce")
       /\ IF r = "ok"
            THEN /\ frames_' = [frames_ EXCEPT ![idx] = NewFrame]
                 /\ announced' = announced \cup {NewFrame}
                 /\ IF idx < Len(frames_)
                      THEN idx' = idx + 1 /\ pc' = pc
                      ELSE idx' = 1 /\ pc' = "start_capture"
                 /\ UNCHANGED res
            ELSE /\ Return(r)
                 /\ UNCHANGED << frames_, announced, idx >>
  /\ UNCHANGED << streaming_, onFrame, op, entryStreaming, afterStart, bufferCount,
                  startAcquisition, done, polls, queued, inflight, capRunning,
                  consumerVars >>
  /\ UNCHANGED restVars

\* api_->CaptureStart
start_CaptureStart ==
  /\ pc = "start_capture"
  /\ steps' = Append(steps, "CaptureStart")
  /\ \E ok \in BOOLEAN :
       IF ok THEN /\ capRunning' = TRUE
                  /\ pc' = "start_queue"
                  /\ idx' = 1
                  /\ UNCHANGED res
             ELSE /\ Return("CaptureStartError")
                  /\ UNCHANGED << capRunning, idx >>
  /\ UNCHANGED << streaming_, frames_, onFrame, op, entryStreaming, afterStart,
                  bufferCount, startAcquisition, done, polls,
                  announced, queued, inflight, consumerVars >>
  /\ UNCHANGED restVars

\* faulty variant: the startAcquisition test is dropped
AfterQueueLoop_NoAcquisition == "start_flag"

\* where start_streaming goes once every frame is queued
AfterQueueLoop == IF startAcquisition THEN "cmd_run" ELSE "start_flag"

\* one iteration of `for (auto const & frame : frames_)`: frame->queue()
start_queue ==
  /\ pc = "start_queue"
  /\ steps' = Append(steps, "CaptureFrameQueue")
  /\ \E ok \in BOOLEAN :
       IF QueueOk(frames_[idx], ok)
         THEN /\ queued' = queued \cup {frames_[idx]}
              /\ held' = held \ {frames_[idx]}
              /\ IF idx < Len(frames_)
                   THEN idx' = idx + 1 /\ pc' = pc
                   ELSE idx' = 1 /\ pc' = AfterQueueLoop
              /\ UNCHANGED res
         ELSE /\ Return("QueueError")
              /\ UNCHANGED << queued, held, idx >>
  /\ UNCHANGED << streaming_, frames_, onFrame, op, entryStreaming, afterStart,
                  bufferCount, startAcquisition, done, polls,
                  announced, inflight, capRunning, delivered, lastRequeue >>
  /\ UNCHANGED restVars

\* streaming_ = true; return {}
start_set_streaming ==
  /\ pc = "start_flag"
  /\ streaming_' = TRUE
  /\ steps' = Append(steps, "streaming_=true")
  /\ Return(VmbErrorSuccess)
  /\ UNCHANGED << frames_, onFrame, op, entryStreaming, afterStart, bufferCount,
                  startAcquisition, idx, done, polls,
                  subsystemVars, consumerVars >>
  /\ UNCHANGED restVars

(* --------------------- VimbaXCamera::feature_command_run --------------- *)

\* the command the call in progress runs
Command == IF op = "start" THEN "AcquisitionStart" ELSE "AcquisitionStop"

\* faulty variant: stop_streaming skips CaptureEnd
AfterCommand_SkipCaptureEnd == IF op = "start" THEN "start_flag" ELSE "stop_flush"

\* where the caller continues when feature_command_run returns success
AfterCommand == IF op = "start" THEN "start_flag" ELSE "stop_capture_end"

\* faulty variant: a failed FeatureCommandRun is recorded but the caller goes on
feature_command_run_Continue ==
  /\ pc = "cmd_run"
  /\ steps' = Append(steps, Command)
  /\ done' = FALSE
  /\ polls' = 0
  /\ \E ok \in BOOLEAN :
       IF ok THEN pc' = "cmd_poll" /\ UNCHANGED res
             ELSE pc' = AfterCommand /\ res' = "CommandError"
  /\ UNCHANGED << streaming_, frames_, onFrame, op, entryStreaming, afterStart,
                  bufferCount, startAcquisition, idx,
                  subsystemVars, consumerVars >>
  /\ UNCHANGED restVars

\* api_->FeatureCommandRun; bool done{false}
feature_command_run ==
  /\ pc = "cmd_run"
  /\ steps' = Append(steps, Command)
  /\ done' = FALSE
  /\ polls' = 0
  /\ \E ok \in BOOLEAN :
       IF ok THEN pc' = "cmd_poll" /\ UNCHANGED res
             ELSE Return("CommandError")
  /\ UNCHANGED << streaming_, frames_, onFrame, op, entryStreaming, afterStart,
                  bufferCount, startAcquisition, idx,
                  subsystemVars, consumerVars >>
  /\ UNCHANGED restVars

\* faulty variant: the loop is left after the first query whatever it reports
FeatureCommandIsDone_ExitAnyway ==
  /\ pc = "cmd_poll"
  /\ \E d \in BOOLEAN :
       /\ done' = d
       /\ pc' = AfterCommand
       /\ polls' = 0
  /\ UNCHANGED << streaming_, frames_, onFrame, op, res, entryStreaming, afterStart,
                  bufferCount, startAcquisition, idx, steps,
                  subsystemVars, consumerVars >>
  /\ UNCHANGED restVars

\* faulty variant: the loop gives up after MaxPolls iterations
FeatureCommandIsDone_Timeout ==
  /\ pc = "cmd_poll"
  /\ \E d \in BOOLEAN :
       /\ done' = d
       /\ IF d THEN pc' = AfterCommand /\ polls' = 0 /\ UNCHANGED res
          ELSE IF polls < MaxPolls
                 THEN pc' = pc /\ polls' = polls + 1 /\ UNCHANGED res
                 ELSE Return("Timeout") /\ polls' = 0
  /\ UNCHANGED << streaming_, frames_, onFrame, op, entryStreaming, afterStart,
                  bufferCount, startAcquisition, idx, steps,
                  subsystemVars, consumerVars >>
  /\ UNCHANGED restVars

\* api_->FeatureCommandIsDone, before the loop and once per iteration of
\* `while (!done)`; its error code is ignored, a failed query leaves done false
FeatureCommandIsDone ==
  /\ pc = "cmd_poll"
  /\ \E d \in BOOLEAN :
       /\ done' = d
       /\ pc' = IF d THEN AfterCommand ELSE pc
       /\ polls' = IF d THEN 0 ELSE IF polls < MaxPolls THEN polls + 1 ELSE polls
  /\ UNCHANGED << streaming_, frames_, onFrame, op, res, entryStreaming, afterStart,
                  bufferCount, startAcquisition, idx, steps,
                  subsystemVars, consumerVars >>
  /\ UNCHANGED restVars

(* ----------------------- VimbaXCamera::stop_streaming ------------------ *)

\* faulty variant: the stop sequence is run without looking at streaming_
stop_streaming_Unconditional ==
  /\ pc = "idle"
  /\ op' = "stop"
  /\ entryStreaming' = streaming_
  /\ afterStart' = (op = "start" /\ res = VmbErrorSuccess)
  /\ steps' = << >>
  /\ pc' = "cmd_run"
  /\ res' = "pending"
  /\ UNCHANGED << streaming_, frames_, onFrame, bufferCount, startAcquisition,
                  idx, done, polls, subsystemVars, consumerVars >>
  /\ UNCHANGED restVars

\* entry of stop_streaming: `if (!streaming_) return {};`
stop_streaming ==
  /\ pc = "idle"
  /\ op' = "stop"
  /\ entryStreaming' = streaming_
  /\ afterStart' = (op = "start" /\ res = VmbErrorSuccess)
  /\ steps' = << >>
  /\ IF streaming_ THEN pc' = "cmd_run" /\ res' = "pending"
                   ELSE Return(VmbErrorSuccess)
  /\ UNCHANGED << streaming_, frames_, onFrame, bufferCount, startAcquisition,
                  idx, done, polls, subsystemVars, consumerVars >>
  /\ UNCHANGED restVars

\* api_->CaptureEnd: waits for the completion callbacks that are running
stop_CaptureEnd ==
  /\ pc = "stop_capture_end"
  /\ inflight = {}
  /\ steps' = Append(steps, "CaptureEnd")
  /\ \E ok \in BOOLEAN :
       IF ok THEN /\ capRunning' = FALSE
                  /\ pc' = "stop_flush"
                  /\ UNCHANGED res
             ELSE /\ Return("CaptureEndError")
                  /\ UNCHANGED capRunning
  /\ UNCHANGED << streaming_, frames_, onFrame, op, entryStreaming, afterStart,
                  bufferCount, startAcquisition, idx, done, polls,
                  announced, queued, inflight, consumerVars >>
  /\ UNCHANGED restVars

\* faulty variant: the queue is not flushed before the frames are revoked
stop_CaptureQueueFlush_Skipped ==
  /\ pc = "stop_flush"
  /\ steps' = Append(steps, "CaptureQueueFlush")
  /\ pc' = "stop_revoke"
  /\ UNCHANGED << streaming_, frames_, onFrame, op, res, entryStreaming, afterStart,
                  bufferCount, startAcquisition, idx, done, polls,
                  subsystemVars, consumerVars >>
  /\ UNCHANGED restVars

\* api_->CaptureQueueFlush: empties the capture queue
stop_CaptureQueueFlush ==
  /\ pc = "stop_flush"
  /\ steps' = Append(steps, "CaptureQueueFlush")
  /\ \E ok \in BOOLEAN :
       IF ok THEN /\ queued' = {}
                  /\ pc' = "stop_revoke"
                  /\ UNCHANGED res
             ELSE /\ Return("FlushError")
                  /\ UNCHANGED queued
  /\ UNCHANGED << streaming_, frames_, onFrame, op, entryStreaming, afterStart,
                  bufferCount, startAcquisition, idx, done, polls,
                  announced, inflight, capRunning, consumerVars >>
  /\ UNCHANGED restVars

\* api_->FrameRevokeAll: revokes every frame announced for the camera
stop_FrameRevokeAll ==
  /\ pc = "stop_revoke"
  /\ steps' = Append(steps, "FrameRevokeAll")
  /\ \E ok \in BOOLEAN :
       IF ok THEN /\ announced' = {}
                  /\ pc' = "stop_clear"
                  /\ UNCHANGED res
             ELSE /\ Return("RevokeError")
                  /\ UNCHANGED announced
  /\ UNCHANGED << streaming_, frames_, onFrame, op, entryStreaming, afterStart,
                  bufferCount, startAcquisition, idx, done, polls,
                  queued, inflight, capRunning, consumerVars >>
  /\ UNCHANGED restVars

\* faulty variant: the pool is not released
stop_frames_clear_Kept ==
  /\ pc = "stop_clear"
  /\ steps' = Append(steps, "frames_.clear")
  /\ pc' = "stop_flag"
  /\ UNCHANGED << streaming_, frames_, onFrame, op, res, entryStreaming, afterStart,
                  bufferCount, startAcquisition, idx, done, polls,
                  subsystemVars, consumerVars >>
  /\ UNCHANGED restVars

\* frames_.clear()
stop_frames_clear ==
  /\ pc = "stop_clear"
  /\ frames_' = << >>
  /\ held' = {}
  /\ steps' = Append(steps, "frames_.clear")
  /\ pc' = "stop_flag"
  /\ UNCHANGED << streaming_, onFrame, op, res, entryStreaming, afterStart,
                  bufferCount, startAcquisition, idx, done, polls,
                  subsystemVars, delivered, lastRequeue >>
  /\ UNCHANGED restVars

\* streaming_ = false; return {}
stop_set_idle ==
  /\ pc = "stop_flag"
  /\ streaming_' = FALSE
  /\ steps' = Append(steps, "streaming_=false")
  /\ Return(VmbErrorSuccess)
  /\ UNCHANGED << frames_, onFrame, op, entryStreaming, afterStart, bufferCount,
                  startAcquisition, idx, done, polls,
                  subsystemVars, consumerVars >>
  /\ UNCHANGED restVars

(* ----------------------- VimbaXCamera::~VimbaXCamera ------------------ *)

\* entry of the destructor: stop_streaming() is called and its result dropped
VimbaXCamera_destructor ==
  /\ pc = "idle"
  /\ op' = "destroy"
  /\ entryStreaming' = streaming_
  /\ afterStart' = (op = "start" /\ res = VmbErrorSuccess)
  /\ steps' = << >>
  /\ IF streaming_ THEN pc' = "cmd_run" /\ res' = "pending"
                   ELSE pc' = "dtor_close" /\ res' = VmbErrorSuccess
  /\ UNCHANGED << streaming_, frames_, onFrame, bufferCount, startAcquisition,
                  idx, done, polls, subsystemVars, consumerVars >>
  /\ UNCHANGED restVars

\* api_->CameraClose(camera_handle_); camera_handle_ = nullptr; then the members
\* of the engine, frames_ among them, are destroyed
CameraClose ==
  /\ pc = "dtor_close"
  /\ pc' = "destroyed"
  /\ streaming_' = FALSE /\ frames_' = << >> /\ onFrame' = "keep"
  /\ res' = VmbErrorSuccess
  /\ entryStreaming' = FALSE /\ afterStart' = FALSE
  /\ bufferCount' = 1 /\ startAcquisition' = FALSE
  /\ idx' = 1 /\ done' = FALSE /\ polls' = 0 /\ steps' = << >>
  /\ held' = {} /\ delivered' = 0 /\ lastRequeue' = "none"
  /\ UNCHANGED << op, subsystemVars >>
  /\ UNCHANGED restVars

(* ------------------- completion callbacks (subsystem threads) ---------- *)

InFlightFrames == { p[1] : p \in inflight }

\* the capture subsystem fills queued frame f and invokes its completion
\* callback with receiveStatus st
FrameComplete(f, st) ==
  /\ pc # "crashed"
  /\ capRunning
  /\ f \in queued
  /\ st = "Complete" =>
       delivered + Cardinality({ p \in inflight : p[2] = "Complete" }) < MaxDeliveries
  /\ queued' = queued \ {f}
  /\ inflight' = inflight \cup { << f, st >> }
  /\ UNCHANGED << callerVars, announced, capRunning, consumerVars >>
  /\ UNCHANGED restVars

\* faulty variant: on_frame_ready queues the frame itself after the consumer ran
on_frame_ready_SelfRequeue(f) ==
  /\ delivered' = delivered + 1
  /\ \E ok \in BOOLEAN :
       /\ queued' = IF QueueOk(f, ok) THEN queued \cup {f} ELSE queued
       /\ lastRequeue' = IF QueueOk(f, ok) THEN "ok" ELSE "failed"
  /\ held' = IF f \in queued' THEN held \ {f} ELSE held \cup {f}

\* Frame::on_frame_ready: fill the message, transform(), then callback_(frame);
\* a "requeue" consumer calls frame->queue() before it returns
on_frame_ready(f) ==
  /\ delivered' = delivered + 1
  /\ IF onFrame = "requeue"
       THEN \E ok \in BOOLEAN :
              /\ queued' = IF QueueOk(f, ok) THEN queued \cup {f} ELSE queued
              /\ lastRequeue' = IF QueueOk(f, ok) THEN "ok" ELSE "failed"
       ELSE UNCHANGED << queued, lastRequeue >>
  /\ held' = IF f \in queued' THEN held \ {f} ELSE held \cup {f}

\* faulty variant: an incomplete frame is handed to the consumer before it is
\* queued again
requeue_incomplete_Delivered(f) ==
  /\ \E ok \in BOOLEAN :
       /\ queued' = IF QueueOk(f, ok) THEN queued \cup {f} ELSE queued
       /\ lastRequeue' = IF QueueOk(f, ok) THEN "ok" ELSE "failed"
  /\ delivered' = delivered + 1
  /\ UNCHANGED held

\* the else branch of vmb_frame_callback: sharedPtr->queue(), result ignored
requeue_incomplete(f) ==
  /\ \E ok \in BOOLEAN :
       /\ queued' = IF QueueOk(f, ok) THEN queued \cup {f} ELSE queued
       /\ lastRequeue' = IF QueueOk(f, ok) THEN "ok" ELSE "failed"
  /\ UNCHANGED << held, delivered >>

\* Frame::vmb_frame_callback on a Frame object that exists
vmb_frame_callback(f, st) ==
  /\ pc # "crashed"
  /\ << f, st >> \in inflight
  /\ Alive(f)
  /\ inflight' = inflight \ { << f, st >> }
  /\ IF st = "Complete" THEN on_frame_ready(f) ELSE requeue_incomplete(f)
  /\ UNCHANGED << callerVars, announced, capRunning >>
  /\ UNCHANGED restVars

\* the process is terminated: the engine, its caller and the consumer are gone
ProcessDies ==
  /\ pc' = "crashed"
  /\ streaming_' = FALSE /\ frames_' = << >> /\ onFrame' = "keep"
  /\ op' = "none" /\ res' = VmbErrorSuccess
  /\ entryStreaming' = FALSE /\ afterStart' = FALSE
  /\ bufferCount' = 1 /\ startAcquisition' = FALSE
  /\ idx' = 1 /\ done' = FALSE /\ polls' = 0 /\ steps' = << >>
  /\ held' = {} /\ delivered' = 0 /\ lastRequeue' = "none"

\* Frame::vmb_frame_callback on a Frame object that was destroyed while queued:
\* frame->context[0] dangles, ptr->shared_from_this() is undefined behaviour.
\* The process dies, or the callback returns without effect, or it runs on the
\* stale memory and queues the still announced VmbFrame_t again.
vmb_frame_callback_dangling(f, st) ==
  /\ pc # "crashed"
  /\ << f, st >> \in inflight
  /\ ~Alive(f)
  /\ inflight' = inflight \ { << f, st >> }
  /\ \E outcome \in {"crash", "return", "queue"} :
       /\ IF outcome = "crash" THEN ProcessDies
                               ELSE UNCHANGED << callerVars, consumerVars >>
       /\ queued' = IF outcome = "queue" /\ f \in announced THEN queued \cup {f} ELSE queued
  /\ UNCHANGED << announced, capRunning >>
  /\ UNCHANGED restVars

(* ------------------------- uint64_t arithmetic ------------------------- *)

\* std::nano::den
nano_den == 1000000000

\* the len low bytes of n, least significant first
RECURSIVE Bytes(_, _)
Bytes(n, len) ==
  IF len = 0 THEN << >> ELSE << n % 256 >> \o Bytes(n \div 256, len - 1)

\* a uint64_t is its eight bytes, least significant first
U64(n) == Bytes(n, 8)

\* sum of the byte products a[j] * b[i+1-j], j = from .. i, of column i
RECURSIVE Column(_, _, _, _)
Column(a, b, i, from) ==
  IF from > i THEN 0 ELSE a[from] * b[i + 1 - from] + Column(a, b, i, from + 1)

RECURSIVE MulBytes(_, _, _, _)
MulBytes(a, b, i, carry) ==
  IF i > 8 THEN << >>
  ELSE LET sum == carry + Column(a, b, i, 1)
       IN  << sum % 256 >> \o MulBytes(a, b, i + 1, sum \div 256)

\* a * b on uint64_t: the low 64 bits of the product
Mul64(a, b) == MulBytes(a, b, 1, 0)

\* bytes 1 .. i of the quotient of a by q, rem carried down from the bytes above
RECURSIVE DivBytes(_, _, _, _)
DivBytes(a, q, i, rem) ==
  IF i = 0 THEN << >>
  ELSE LET cur == rem * 256 + a[i]
       IN  DivBytes(a, q, i - 1, cur % q) \o << cur \div q >>

\* a / q on uint64_t, for a divisor 1 <= q < 2^23
Div64(a, q) == DivBytes(a, q, 8, 0)

(* --------------------- Frame: the completion of one frame -------------- *)

\* the formats the switch of transform shifts by 6, by 4 and by 2
Shift6Formats == {"Mono10", "BayerBG10", "BayerGB10", "BayerGR10", "BayerRG10"}
Shift4Formats == {"Mono12", "BayerBG12", "BayerGB12", "BayerGR12", "BayerRG12"}
Shift2Formats == {"Mono14"}

\* the formats get_image_encoding names that transform copies as they are
PlainFormats ==
  {"Mono8", "Mono16",
   "BayerGR8", "BayerRG8", "BayerGB8", "BayerBG8",
   "BayerGR16", "BayerRG16", "BayerGB16", "BayerBG16",
   "Rgb8", "Bgr8", "Rgb16", "Bgr16", "Argb8", "Bgra8", "Rgba16", "Bgra16",
   "Yuv422", "Yuv422_8", "YCbCr422_8", "YCbCr601_422_8", "YCbCr709_422_8",
   "YCbCr422_8_CbYCrY", "YCbCr601_422_8_CbYCrY", "YCbCr709_422_8_CbYCrY"}

\* VmbPixelFormatType: the formats the source names, and one it does not name
PixelFormats ==
  Shift6Formats \cup Shift4Formats \cup Shift2Formats \cup PlainFormats \cup {"Yuv411"}

\* Frame::get_image_encoding
get_image_encoding(pixelFormat) ==
  CASE pixelFormat = "Mono8" -> "MONO8"
    [] pixelFormat \in {"Mono10", "Mono12", "Mono14", "Mono16"} -> "MONO16"
    [] pixelFormat = "BayerGR8" -> "BAYER_GRBG8"
    [] pixelFormat = "BayerRG8" -> "BAYER_RGGB8"
    [] pixelFormat = "BayerGB8" -> "BAYER_GBRG8"
    [] pixelFormat = "BayerBG8" -> "BAYER_BGGR8"
    [] pixelFormat \in {"BayerGR10", "BayerGR12", "BayerGR16"} -> "BAYER_GRBG16"
    [] pixelFormat \in {"BayerRG10", "BayerRG12", "BayerRG16"} -> "BAYER_RGGB16"
    [] pixelFormat \in {"BayerGB10", "BayerGB12", "BayerGB16"} -> "BAYER_GBRG16"
    [] pixelFormat \in {"BayerBG10", "BayerBG12", "BayerBG16"} -> "BAYER_BGGR16"
    [] pixelFormat = "Rgb8" -> "RGB8"
    [] pixelFormat = "Bgr8" -> "BGR8"
    [] pixelFormat = "Rgb16" -> "RGB16"
    [] pixelFormat = "Bgr16" -> "BGR16"
    [] pixelFormat = "Argb8" -> "RGBA8"
    [] pixelFormat = "Bgra8" -> "BGRA8"
    [] pixelFormat = "Rgba16" -> "RGBA16"
    [] pixelFormat = "Bgra16" -> "BGRA16"
    [] pixelFormat \in {"Yuv422", "YCbCr422_8_CbYCrY"} -> "YUV422"
    [] pixelFormat \in {"Yuv422_8", "YCbCr422_8", "YCbCr601_422_8", "YCbCr709_422_8",
                        "YCbCr601_422_8_CbYCrY", "YCbCr709_422_8_CbYCrY"} -> "YUV422_YUY2"
    [] OTHER -> "TYPE_8UC1"

\* std::to_string of an unsigned number: its decimal digits
RECURSIVE to_string(_)
to_string(n) ==
  IF n < 10 THEN << n >> ELSE to_string(n \div 10) \o << n % 10 >>

\* faulty variant: the device's frequency is not applied
timestamp_to_ns_Unscaled(timestamp, expired, err, timestampFrequency) == timestamp

\* faulty variant: a failed frequency query yields a zero timestamp
timestamp_to_ns_ZeroOnFailure(timestamp, expired, err, timestampFrequency) ==
  IF ~expired /\ err = VmbErrorSuccess
    THEN IF timestampFrequency > nano_den
           THEN Div64(timestamp, timestampFrequency \div nano_den)
           ELSE Mul64(timestamp, U64(nano_den \div timestampFrequency))
    ELSE U64(0)

\* Frame::timestamp_to_ns. FeatureIntGet is called only while the camera exists;
\* err and timestampFrequency are what it answers.
timestamp_to_ns(timestamp, expired, err, timestampFrequency) ==
  IF ~expired /\ err = VmbErrorSuccess
    THEN IF timestampFrequency > nano_den
           THEN Div64(timestamp, timestampFrequency \div nano_den)
           ELSE Mul64(timestamp, U64(nano_den \div timestampFrequency))
    ELSE timestamp

\* helper::left_shift16: every 16-bit sample shifted left, the bits shifted out
\* of the 16-bit word dropped
left_shift16(in, shift) ==
  [k \in 1 .. Len(in) |-> (in[k] * 2^shift) % 65536]

\* faulty variant: the Mono14 case is missing from the switch
transform_Mono14Missing(pixelFormat, mode, imageData, data) ==
  CASE pixelFormat \in Shift6Formats -> left_shift16(imageData, 6)
    [] pixelFormat \in Shift4Formats -> left_shift16(imageData, 4)
    [] OTHER -> IF mode = "kByTl" THEN imageData ELSE data

\* Frame::transform: the new content of `data`
transform(pixelFormat, mode, imageData, data) ==
  CASE pixelFormat \in Shift6Formats -> left_shift16(imageData, 6)
    [] pixelFormat \in Shift4Formats -> left_shift16(imageData, 4)
    [] pixelFormat \in Shift2Formats -> left_shift16(imageData, 2)
    [] OTHER -> IF mode = "kByTl" THEN imageData ELSE data

\* vmb_frame_callback entered for a frame received with VmbFrameStatusComplete:
\* on_frame_ready() is called
vmb_frame_callback_Complete ==
  /\ fpc = "callback"
  /\ vmb_frame_.receiveStatus = "Complete"
  /\ fpc' = "fill"
  /\ UNCHANGED << vmb_frame_, frameObj, device, msg, invoked, seen >>
  /\ UNCHANGED << engineVars, other >>

\* encoding, width, height, is_bigendian and header.frame_id are assigned
on_frame_ready_fill ==
  /\ fpc = "fill"
  /\ msg' = [msg EXCEPT !.encoding = get_image_encoding(vmb_frame_.pixelFormat),
                        !.width = vmb_frame_.width,
                        !.height = vmb_frame_.height,
                        !.is_bigendian = FALSE,
                        !.frame_id = to_string(vmb_frame_.frameID)]
  /\ fpc' = "stamp"
  /\ UNCHANGED << vmb_frame_, frameObj, device, invoked, seen >>
  /\ UNCHANGED << engineVars, other >>

\* faulty variant: callback_ is called before transform()
AfterStamp_SkipTransform == "consumer"

\* what on_frame_ready does once header.stamp is assigned
AfterStamp == "transform"

\* vmbTimeStamp{timestamp_to_ns(vmb_frame_.timestamp)} is stored in header.stamp
\* (stamp.sec and stamp.nanosec are its whole seconds and the nanoseconds left)
on_frame_ready_stamp ==
  /\ fpc = "stamp"
  /\ msg' = [msg EXCEPT !.stamp = timestamp_to_ns(vmb_frame_.timestamp,
                                                   frameObj.expired, device.err,
                                                   device.timestampFrequency)]
  /\ fpc' = AfterStamp
  /\ UNCHANGED << vmb_frame_, frameObj, device, invoked, seen >>
  /\ UNCHANGED << engineVars, other >>

\* transform()
on_frame_ready_transform ==
  /\ fpc = "transform"
  /\ msg' = [msg EXCEPT !.data = transform(vmb_frame_.pixelFormat,
                                           frameObj.allocation_mode_,
                                           vmb_frame_.imageData, msg.data)]
  /\ fpc' = "consumer"
  /\ UNCHANGED << vmb_frame_, frameObj, device, invoked, seen >>
  /\ UNCHANGED << engineVars, other >>

\* if (callback_) { callback_(shared_from_this()); } and the return to the
\* subsystem
on_frame_ready_callback ==
  /\ fpc = "consumer"
  /\ IF frameObj.callback_
       THEN invoked' = invoked + 1 /\ seen' = msg
       ELSE UNCHANGED << invoked, seen >>
  /\ fpc' = "returned"
  /\ UNCHANGED << vmb_frame_, frameObj, device, msg >>
  /\ UNCHANGED << engineVars, other >>

\* a default-constructed sensor_msgs::Image whose data is `data`
EmptyImage(data) ==
  [encoding |-> "", width |-> 0, height |-> 0, is_bigendian |-> FALSE,
   frame_id |-> << >>, stamp |-> U64(0), data |-> data]

\* the 16-bit samples a frame's image is made of
Samples == {0, 1, 1025, 4097, 16385, 65535}

Images == UNION { [1 .. n -> Samples] : n \in 1 .. MaxSamples }

\* device timestamps: 0, 1, 1000, 4,000,000,000, 2^63 and 2^64 - 1
Timestamps ==
  {U64(0), U64(1), U64(1000), Mul64(U64(4), U64(nano_den)),
   << 0, 0, 0, 0, 0, 0, 0, 128 >>, [k \in 1 .. 8 |-> 255]}

\* values of DeviceTimestampFrequency, in Hz
Frequencies ==
  {1, 3, 500000000, 999999999, nano_den, nano_den + 1, 1999999999, 2000000000,
   2147483647}

\* a completed frame and its Frame object; with kByImage the subsystem wrote the
\* image into `data` itself, with kByTl `data` is the zero-filled vector of
\* Frame::create
CompletedFrame(pixelFormat, image, timestamp) ==
  [pixelFormat |-> pixelFormat, width |-> Len(image), height |-> 1,
   frameID |-> 10 * Len(image) + 7, timestamp |-> timestamp,
   imageData |-> image, receiveStatus |-> "Complete"]

\* frames of every format and image, on a device that answers 1 GHz
TransformInputs ==
  { [frame |-> CompletedFrame(pf, image, U64(1000)),
     obj |-> [callback_ |-> cb, expired |-> FALSE, allocation_mode_ |-> mode],
     dev |-> [err |-> VmbErrorSuccess, timestampFrequency |-> nano_den]] :
    pf \in PixelFormats, image \in Images, cb \in BOOLEAN,
    mode \in {"kByImage", "kByTl"} }

\* frames of every timestamp, on every device and with the camera gone
TimestampInputs ==
  { [frame |-> CompletedFrame("Mono8", << 0 >>, timestamp),
     obj |-> [callback_ |-> cb, expired |-> expired, allocation_mode_ |-> "kByImage"],
     dev |-> [err |-> err, timestampFrequency |-> f]] :
    timestamp \in Timestamps, cb \in BOOLEAN, expired \in BOOLEAN,
    err \in {VmbErrorSuccess, "VmbErrorBadHandle"}, f \in Frequencies }

\* no completion callback is looked at: the frame variables rest
FrameIdle ==
  /\ vmb_frame_ = CompletedFrame("Mono8", << 0 >>, U64(0))
  /\ frameObj = [callback_ |-> FALSE, expired |-> FALSE, allocation_mode_ |-> "kByImage"]
  /\ device = [err |-> VmbErrorSuccess, timestampFrequency |-> nano_den]
  /\ msg = EmptyImage(<< 0 >>)
  /\ fpc = "none"
  /\ invoked = 0
  /\ seen = EmptyImage(<< 0 >>)

(* ------------------- two threads calling start / stop ------------------ *)

\* what a caller thread keeps to itself: its position, its arguments, its loop
\* iterator and the local `done`; streaming_ and frames_ are the engine's
ThreadLocals ==
  [pc |-> pc, op |-> op, res |-> res, entryStreaming |-> entryStreaming,
   afterStart |-> afterStart, bufferCount |-> bufferCount,
   startAcquisition |-> startAcquisition, idx |-> idx, done |-> done,
   polls |-> polls, steps |-> steps]

\* the scheduler runs the other caller thread: nothing in start_streaming or
\* stop_streaming keeps it from running between any two steps
ContextSwitch ==
  /\ pc \notin {"crashed", "destroyed"}
  /\ other' = ThreadLocals
  /\ pc' = other.pc /\ op' = other.op /\ res' = other.res
  /\ entryStreaming' = other.entryStreaming /\ afterStart' = other.afterStart
  /\ bufferCount' = other.bufferCount
  /\ startAcquisition' = other.startAcquisition
  /\ idx' = other.idx /\ done' = other.done /\ polls' = other.polls
  /\ steps' = other.steps
  /\ UNCHANGED << streaming_, frames_, onFrame, subsystemVars, consumerVars,
                  frameVars >>

\* the running thread's range-for over frames_ still points at an element, and
\* in the queueing loop at a Frame
IteratorValid ==
  /\ idx <= Len(frames_)
  /\ pc = "start_queue" => frames_[idx] # 0

\* the running thread's loop uses frames_ after the other thread cleared or
\* resized it (an invalidated iterator, a null shared_ptr): undefined
\* behaviour. The process dies, or the call comes back with an error.
start_loop_undefined ==
  /\ pc \in {"start_create", "start_queue"}
  /\ ~IteratorValid
  /\ \E outcome \in {"crash", "return"} :
       IF outcome = "crash"
         THEN ProcessDies
         ELSE /\ Return("VmbErrorUnknown")
              /\ UNCHANGED << streaming_, frames_, onFrame, op, entryStreaming,
                              afterStart, bufferCount, startAcquisition, idx, done,
                              polls, steps, consumerVars >>
  /\ UNCHANGED << subsystemVars, restVars >>

EngineInit ==
  /\ streaming_ = FALSE
  /\ frames_ = << >>
  /\ onFrame = "keep"
  /\ pc = "idle"
  /\ op = "none"
  /\ res = VmbErrorSuccess
  /\ entryStreaming = FALSE
  /\ afterStart = FALSE
  /\ bufferCount = 1
  /\ startAcquisition = FALSE
  /\ idx = 1
  /\ done = FALSE
  /\ polls = 0
  /\ steps = << >>
  /\ announced = {}
  /\ queued = {}
  /\ inflight = {}
  /\ capRunning = FALSE
  /\ held = {}
  /\ delivered = 0
  /\ lastRequeue = "none"

Init == EngineInit /\ FrameIdle /\ other = ThreadLocals

Next ==
  \/ \E n \in 1 .. MaxBufferCount, cb \in Consumers, acq \in BOOLEAN :
       start_streaming(n, cb, acq)
  \/ start_PayloadSizeGet
  \/ start_Frame_create
  \/ start_CaptureStart
  \/ start_queue
  \/ start_set_streaming
  \/ feature_command_run
  \/ FeatureCommandIsDone
  \/ stop_streaming
  \/ stop_CaptureEnd
  \/ stop_CaptureQueueFlush
  \/ stop_FrameRevokeAll
  \/ stop_frames_clear
  \/ stop_set_idle
  \/ VimbaXCamera_destructor
  \/ CameraClose
  \/ \E f \in FrameIds, st \in FrameStatus : FrameComplete(f, st)
  \/ \E f \in FrameIds, st \in FrameStatus : vmb_frame_callback(f, st)
  \/ \E f \in FrameIds, st \in FrameStatus : vmb_frame_callback_dangling(f, st)

Spec == Init /\ [][Next]_vars

\* the subsystem calls vmb_frame_callback for one completed frame of an engine
\* that is otherwise at rest
FrameInit ==
  /\ EngineInit
  /\ \E in \in TransformInputs \cup TimestampInputs :
       /\ vmb_frame_ = in.frame
       /\ frameObj = in.obj
       /\ device = in.dev
       /\ msg = EmptyImage(IF in.obj.allocation_mode_ = "kByImage"
                              THEN in.frame.imageData
                              ELSE [k \in 1 .. Len(in.frame.imageData) |-> 0])
       /\ seen = EmptyImage(<< 0 >>)
  /\ fpc = "callback"
  /\ invoked = 0
  /\ other = ThreadLocals

FrameNext ==
  \/ vmb_frame_callback_Complete
  \/ on_frame_ready_fill
  \/ on_frame_ready_stamp
  \/ on_frame_ready_transform
  \/ on_frame_ready_callback

FrameSpec == FrameInit /\ [][FrameNext]_vars

\* two caller threads on one engine whose device completes no frame; each
\* thread calls start_streaming at most once and stop_streaming at most once
\* after it
ConcurrentNext ==
  \/ \E n \in 1 .. MaxBufferCount, cb \in Consumers, acq \in BOOLEAN :
       op = "none" /\ start_streaming(n, cb, acq)
  \/ start_PayloadSizeGet
  \/ IteratorValid /\ FreeIds \ PoolFrames # {} /\ start_Frame_create
  \/ start_CaptureStart
  \/ IteratorValid /\ start_queue
  \/ start_loop_undefined
  \/ start_set_streaming
  \/ feature_command_run
  \/ FeatureCommandIsDone
  \/ op # "stop" /\ stop_streaming
  \/ stop_CaptureEnd
  \/ stop_CaptureQueueFlush
  \/ stop_FrameRevokeAll
  \/ stop_frames_clear
  \/ stop_set_idle
  \/ ContextSwitch

ConcurrentSpec == Init /\ [][ConcurrentNext]_vars

(* ======================= properties of the engine ====================== *)

IsPrefix(s, t) == Len(s) <= Len(t) /\ \A k \in 1 .. Len(s) : s[k] = t[k]

Repeat(x, n) == [k \in 1 .. n |-> x]

\* a start_streaming / stop_streaming call has just returned, or nothing has
\* been called since
Returned(o) == pc = "idle" /\ op = o

Failed == res \notin {VmbErrorSuccess, "pending"}

\* the engine is Idle and nothing of a start is left behind
Unwound ==
  /\ ~streaming_
  /\ PoolFrames = {}
  /\ announced = {}
  /\ queued = {}
  /\ ~capRunning

\* C1: if any step of start_streaming fails, the call returns that step's error
\* and the engine is left Idle and fully unwound: is_streaming() false, pool
\* empty, nothing announced or queued, capture engine not running.
\* (The code returns at once from every failing step and unwinds nothing.)
C1_FailedStartIsUnwound ==
  (Returned("start") /\ Failed) => Unwound

\* C2: if announce fails for the k-th of N buffers, the k-1 buffers announced
\* earlier in the call are revoked and released before the call returns: no
\* buffer is left announced or held in the pool.
C2_AnnounceFailureLeaksNothing ==
  (Returned("start") /\ res = "AnnounceError") =>
     (announced = {} /\ PoolFrames = {})

\* C6: a FrameBuffer is never destroyed while it is still announced to or queued
\* with the capture subsystem (or while its completion callback runs): every
\* frame the subsystem still refers to is a Frame object that exists.
C6_NoFrameDestroyedWhileRegistered ==
  (announced \cup queued \cup InFlightFrames) \subseteq PoolFrames

\* what a start_streaming(n, _, acq) made while Idle does when nothing fails
ExpectedStartSteps(n, acq) ==
  << "PayloadSizeGet" >> \o Repeat("FrameAnnounce", n) \o << "CaptureStart" >>
    \o Repeat("CaptureFrameQueue", n)
    \o (IF acq THEN << "AcquisitionStart" >> ELSE << >>)
    \o << "streaming_=true" >>

\* C3: a start_streaming call made while Idle calls the subsystem in the order
\* payload-size query, announce of each of the bufferCount buffers,
\* capture-start, enqueue of every buffer, acquisition-start iff
\* startAcquisition; is_streaming() is false until all of them have succeeded
\* and true when the call returns success.
C3_StartOrder ==
  (op = "start" /\ ~entryStreaming) =>
     /\ IsPrefix(steps, ExpectedStartSteps(bufferCount, startAcquisition))
     /\ streaming_ <=> (steps = ExpectedStartSteps(bufferCount, startAcquisition))
     /\ (pc = "idle" /\ ~Failed) =>
           steps = ExpectedStartSteps(bufferCount, startAcquisition)

\* a successful start from Idle with the largest pool and the acquisition command
C3_Witness ==
  /\ Returned("start") /\ ~entryStreaming /\ ~Failed
  /\ bufferCount = MaxBufferCount /\ startAcquisition
  /\ streaming_ /\ Len(steps) = 2 * MaxBufferCount + 4

ExpectedStopSteps ==
  << "AcquisitionStop", "CaptureEnd", "CaptureQueueFlush", "FrameRevokeAll",
     "frames_.clear", "streaming_=false" >>

\* C4: a stop_streaming call made while Streaming performs, in this order and
\* without skipping any, acquisition-stop, capture-end, queue-flush, revoke-all,
\* release of the pool, and only then flips the state to Idle.
C4_StopOrder ==
  (op = "stop" /\ entryStreaming) =>
     /\ IsPrefix(steps, ExpectedStopSteps)
     /\ streaming_ <=> (steps # ExpectedStopSteps)
     /\ (frames_ = << >>) <=> (Len(steps) >= 5)
     /\ (pc = "idle" /\ ~Failed) => steps = ExpectedStopSteps

\* a stop from Streaming that went through all six steps
C4_Witness ==
  /\ Returned("stop") /\ entryStreaming /\ ~Failed
  /\ steps = ExpectedStopSteps /\ ~streaming_

\* C10: for every bufferCount >= 1, when all subsystem calls succeed,
\* start_streaming followed immediately by stop_streaming leaves the engine Idle
\* with an empty buffer pool.
C10_StartThenStopIsIdle ==
  (Returned("stop") /\ afterStart /\ ~Failed) =>
     (~streaming_ /\ frames_ = << >>)

\* start_streaming(MaxBufferCount) then stop_streaming, both successful, with no
\* completion in between
C10_Witness ==
  /\ Returned("stop") /\ afterStart /\ ~Failed /\ entryStreaming
  /\ bufferCount = MaxBufferCount
  /\ delivered = 0 /\ lastRequeue = "none"
  /\ ~streaming_ /\ frames_ = << >>

\* C5: when stop_streaming returns success, no buffer of the pool is queued
\* with or announced to the subsystem any more, and no completion callback for
\* any of them fires after the return (none is running, none can be started).
C5_StopReturnsWithNothingRegistered ==
  (Returned("stop") /\ ~Failed) =>
     PoolFrames \cap (announced \cup queued \cup InFlightFrames) = {}

\* a frame is with the consumer: its completion callback runs, or it was handed
\* to the consumer and has not been queued again
InFlightToConsumer(f) == f \in InFlightFrames \cup held

\* the frames a step revokes
Revoked == announced \ announced'

CallbackStep(f, st) ==
  /\ f \in PoolFrames
  /\ << f, st >> \in inflight
  /\ << f, st >> \notin inflight'

\* C8: a completion whose status is not success never invokes the consumer;
\* afterwards its buffer is still announced and is queued again, unless the
\* re-queue call itself failed, and that failure reaches no caller: the caller
\* thread, the result of its calls and the state of the engine are untouched.
C8_IncompleteIsRequeuedNotDelivered ==
  [][ \A f \in FrameIds :
        CallbackStep(f, "Incomplete") =>
          /\ delivered' = delivered /\ held' = held
          /\ f \in announced'
          /\ lastRequeue' \in {"ok", "failed"}
          /\ (f \in queued') <=> (lastRequeue' = "ok")
          /\ UNCHANGED << pc, op, res, streaming_, frames_ >> ]_vars

\* an incomplete frame was queued again while Streaming and the consumer, who
\* never queues, has not been invoked
C8_Witness ==
  /\ streaming_ /\ onFrame = "keep" /\ lastRequeue = "ok" /\ delivered = 0
  /\ queued = PoolFrames /\ PoolFrames \subseteq announced /\ inflight = {}

\* C9 as claimed: after a success completion has been forwarded to the consumer
\* the FrameBuffer queues itself again if the engine is still Streaming (a
\* failure of the queue call apart), and stays announced.
C9_FrameRequeuesItself ==
  [][ \A f \in FrameIds :
        (CallbackStep(f, "Complete") /\ streaming_) =>
          /\ f \in announced'
          /\ f \in queued' \/ lastRequeue' = "failed" ]_vars

\* C9 as amended: a success completion invokes the consumer once and leaves the
\* buffer announced; on_frame_ready never queues it, whether or not the engine
\* is Streaming: it is queued again exactly when the consumer itself calls
\* Frame::queue() and that call succeeds, and is otherwise left with the consumer.
C9_RequeueIsTheConsumers ==
  [][ \A f \in FrameIds :
        CallbackStep(f, "Complete") =>
          /\ delivered' = delivered + 1
          /\ f \in announced'
          /\ (f \in queued') <=> (onFrame = "requeue" /\ lastRequeue' = "ok")
          /\ (f \in held') <=> (f \notin queued') ]_vars

\* with a consumer that queues, a pool of MaxBufferCount frames has delivered
\* more than MaxBufferCount frames and is queued again
C9_Witness ==
  /\ streaming_ /\ onFrame = "requeue"
  /\ Len(frames_) = MaxBufferCount /\ delivered > MaxBufferCount
  /\ queued = PoolFrames /\ PoolFrames \subseteq announced

\* the caller thread takes a step of its own (completion callbacks leave its
\* variables alone)
CallerStep == callerVars' # callerVars

\* C11: start_streaming called while the engine is Streaming returns success at
\* once, makes no call into the capture subsystem, and leaves streaming_, the
\* pool and the registered consumer as they were, whatever arguments it is given.
C11_StartWhileStreamingIsNoOp ==
  /\ [] ((Returned("start") /\ entryStreaming) =>
            (res = VmbErrorSuccess /\ steps = << >> /\ streaming_))
  /\ [][ (pc = "idle" /\ streaming_ /\ op' = "start" /\ CallerStep) =>
            /\ pc' = "idle"
            /\ res' = VmbErrorSuccess
            /\ steps' = << >>
            /\ UNCHANGED << streaming_, frames_, onFrame, subsystemVars,
                            consumerVars >> ]_vars

C11_Witness ==
  /\ Returned("start") /\ entryStreaming /\ res = VmbErrorSuccess
  /\ steps = << >>
  /\ streaming_ /\ Len(frames_) = MaxBufferCount /\ queued # {}

\* C12: stop_streaming called while the engine is Idle returns success at once,
\* makes no call into the capture subsystem, and leaves streaming_ and the pool
\* as they were.
C12_StopWhileIdleIsNoOp ==
  /\ [] ((Returned("stop") /\ ~entryStreaming) =>
            (res = VmbErrorSuccess /\ steps = << >> /\ ~streaming_))
  /\ [][ (pc = "idle" /\ ~streaming_ /\ op' = "stop" /\ CallerStep) =>
            /\ pc' = "idle"
            /\ res' = VmbErrorSuccess
            /\ steps' = << >>
            /\ UNCHANGED << streaming_, frames_, onFrame, subsystemVars,
                            consumerVars >> ]_vars

C12_Witness ==
  /\ Returned("stop") /\ ~entryStreaming /\ res = VmbErrorSuccess
  /\ steps = << >> /\ ~streaming_ /\ frames_ # << >> /\ announced # {}

\* C13: when the acquisition-stop command of stop_streaming fails, the call
\* returns that error at once: capture-end, queue-flush and revoke-all are not
\* attempted, and the engine stays as the call found it.
C13_AcquisitionStopFailureShortCircuits ==
  (op = "stop" /\ res = "CommandError") =>
     /\ pc = "idle"
     /\ steps = << "AcquisitionStop" >>
     /\ entryStreaming /\ streaming_ /\ frames_ # << >>

C13_Witness ==
  /\ Returned("stop") /\ res = "CommandError"
  /\ steps = << "AcquisitionStop" >>
  /\ streaming_ /\ capRunning /\ announced # {}

\* the two states the engine may be in between calls
FullyStreaming ==
  /\ streaming_ /\ capRunning
  /\ PoolFrames # {} /\ PoolFrames \subseteq announced

FullyIdle ==
  /\ ~streaming_ /\ ~capRunning
  /\ frames_ = << >> /\ announced = {}

\* C14: after a stop_streaming call that returned an error from one of its steps
\* the engine is either fully Streaming or fully Idle, never a mixture.
\* (A step that fails after capture-end succeeded leaves streaming_ set with the
\* capture engine stopped.)
C14_FailedStopIsAllOrNothing ==
  (Returned("stop") /\ Failed) => (FullyStreaming \/ FullyIdle)

\* C15: when the engine is destroyed while Streaming, the whole stop sequence
\* has been performed by the time the camera is closed: at CameraClose no frame
\* is announced to or queued with the subsystem.
\* (The destructor drops the result of stop_streaming, which returns from its
\* first failing step.)
C15_DestructionStopsBeforeClose ==
  [][ (pc = "dtor_close" /\ pc' = "destroyed" /\ entryStreaming) =>
         /\ steps = ExpectedStopSteps
         /\ announced = {}
         /\ queued = {} ]_vars

Commands == {"AcquisitionStart", "AcquisitionStop"}

\* the call in progress (or the last one) has issued its command
CommandIssued == \E k \in 1 .. Len(steps) : steps[k] \in Commands

\* the caller thread returns to whoever made the call
ReturnPcs == {"idle", "dtor_close"}

\* C18: feature_command_run returns success only after a FeatureCommandIsDone
\* query made after the command was issued reported completion; when issuing
\* the command fails it returns that error without a single query.
C18_SuccessOnlyAfterDoneReported ==
  /\ [] ((CommandIssued /\ pc # "cmd_poll" /\ res # "CommandError") => done)
  /\ [] ((CommandIssued /\ res = "CommandError") =>
            (~done /\ pc \in ReturnPcs /\ steps[Len(steps)] \in Commands))
  /\ [][ (pc = "cmd_run" /\ CallerStep /\ pc' \notin {"cmd_poll", "crashed"}) =>
            (res' = "CommandError" /\ pc' \in ReturnPcs /\ polls' = 0 /\ ~done') ]_vars

C18_Witness ==
  /\ Returned("start") /\ ~entryStreaming /\ res = VmbErrorSuccess
  /\ startAcquisition /\ CommandIssued /\ done

\* C19: once the command is issued, feature_command_run leaves its polling loop
\* exactly when a query reports completion: a query that does not report it is
\* always followed by another one, however many were made, and the call never
\* returns an error or a result from inside the loop.
C19_PollingEndsOnlyOnCompletion ==
  /\ [] (pc = "cmd_poll" => (~done /\ res = "pending" /\ ENABLED FeatureCommandIsDone))
  /\ [][ (pc = "cmd_poll" /\ CallerStep /\ pc' # "crashed") =>
            /\ done' <=> (pc' = AfterCommand)
            /\ ~done' <=> (pc' = "cmd_poll")
            /\ res' = "pending" ]_vars

C19_Witness ==
  pc = "cmd_poll" /\ polls = MaxPolls /\ op = "stop"

(* ================= properties of one frame's completion ================ *)

\* header.stamp has been assigned by the running completion callback
StampAssigned == fpc \in {"transform", "consumer", "returned"}

\* the frequency query was made and succeeded
FrequencyKnown == ~frameObj.expired /\ device.err = VmbErrorSuccess

\* the value of a uint64_t below 2^31
Small(a) == a[4] < 128 /\ \A k \in 5 .. 8 : a[k] = 0
Value(a) == a[1] + 256 * a[2] + 65536 * a[3] + 16777216 * a[4]

\* C16: when the frequency query succeeds with a frequency f (of at least 1 Hz),
\* timestamp_to_ns maps the tick count t to t div (f div 1,000,000,000) if
\* f > 1,000,000,000 and to t * (1,000,000,000 div f) otherwise, in the unsigned
\* 64-bit integer arithmetic of the code; f = 2,000,000,000 and t = 4,000,000,000
\* give 2,000,000,000 and f = 500,000,000 and t = 1,000 give 2,000.
C16_TimestampScaledByFrequency ==
  (StampAssigned /\ FrequencyKnown) =>
    LET t == vmb_frame_.timestamp
        f == device.timestampFrequency
        ns == msg.stamp
    IN  /\ f > nano_den => ns = Div64(t, f \div nano_den)
        /\ f <= nano_den => ns = Mul64(t, U64(nano_den \div f))
        /\ (f > nano_den /\ Small(t)) =>
              (Small(ns) /\ Value(ns) = Value(t) \div (f \div nano_den))
        /\ (f <= nano_den /\ Small(t) /\ Value(t) <= 2) =>
              (Small(ns) /\ Value(ns) = Value(t) * (nano_den \div f))
        /\ (f = 2000000000 /\ t = << 0, 40, 107, 238, 0, 0, 0, 0 >>) =>
              (Small(ns) /\ Value(ns) = 2000000000)
        /\ (f = 500000000 /\ Small(t) /\ Value(t) = 1000) =>
              (Small(ns) /\ Value(ns) = 2000)

C16_Witness ==
  /\ StampAssigned /\ FrequencyKnown
  /\ device.timestampFrequency = 2000000000
  /\ vmb_frame_.timestamp = << 0, 40, 107, 238, 0, 0, 0, 0 >>
  /\ msg.stamp = U64(2000000000)

\* the significant bits of a sample of a raw format, as the format's name says
BitDepth(pixelFormat) ==
  CASE pixelFormat \in {"Mono10", "BayerBG10", "BayerGB10", "BayerGR10", "BayerRG10"} -> 10
    [] pixelFormat \in {"Mono12", "BayerBG12", "BayerGB12", "BayerGR12", "BayerRG12"} -> 12
    [] pixelFormat \in {"Mono14"} -> 14
    [] pixelFormat \in {"Mono16", "BayerGR16", "BayerRG16", "BayerGB16", "BayerBG16"} -> 16
    [] OTHER -> 8

TransformDone == fpc \in {"consumer", "returned"}

\* C17: for every raw format of bit depth d in {10, 12, 14}, transform writes for
\* each 16-bit sample s of the image the sample (s * 2^(16-d)) mod 2^16: the low
\* 16-d bits of the output are zero and its top d bits are the low d bits of s.
C17_SamplesLeftAligned ==
  (TransformDone /\ BitDepth(vmb_frame_.pixelFormat) \in {10, 12, 14}) =>
    LET d == BitDepth(vmb_frame_.pixelFormat)
        in == vmb_frame_.imageData
        out == msg.data
    IN  /\ Len(out) = Len(in)
        /\ \A k \in 1 .. Len(in) :
             /\ out[k] = (in[k] * 2^(16 - d)) % 65536
             /\ out[k] % 2^(16 - d) = 0
             /\ out[k] \div 2^(16 - d) = in[k] % 2^d

C17_Witness ==
  /\ TransformDone
  /\ vmb_frame_.pixelFormat = "Mono14"
  /\ frameObj.allocation_mode_ = "kByTl"
  /\ vmb_frame_.imageData = << 16385, 65535 >>
  /\ msg.data = << 4, 65532 >>

\* C20: for a frame completed with success whose Frame has a consumer
\* registered, the consumer is called exactly once, before the completion
\* callback returns, and the message it is handed has its encoding, width,
\* height, frame id and timestamp assigned and its data transformed (for a
\* format that is not shifted: the image is in `data`).
C20_FilledTransformedThenDeliveredOnce ==
  /\ invoked <= 1
  /\ (invoked = 1) <=> (fpc = "returned" /\ frameObj.callback_)
  /\ (invoked = 1) =>
       /\ seen = msg
       /\ seen.encoding = get_image_encoding(vmb_frame_.pixelFormat)
       /\ seen.width = vmb_frame_.width
       /\ seen.height = vmb_frame_.height
       /\ seen.frame_id = to_string(vmb_frame_.frameID)
       /\ seen.stamp = timestamp_to_ns(vmb_frame_.timestamp, frameObj.expired,
                                       device.err, device.timestampFrequency)
       /\ BitDepth(vmb_frame_.pixelFormat) \notin {10, 12, 14} =>
            seen.data = vmb_frame_.imageData

C20_Witness ==
  /\ fpc = "returned" /\ invoked = 1
  /\ vmb_frame_.pixelFormat = "BayerRG16"
  /\ frameObj.allocation_mode_ = "kByTl"
  /\ seen.encoding = "BAYER_RGGB16"
  /\ seen.width = 2
  /\ seen.frame_id = << 2, 7 >>
  /\ seen.stamp = U64(1000)
  /\ seen.data = << 1, 65535 >>

\* C21: when the frequency query fails, or the camera no longer exists,
\* timestamp_to_ns returns the raw tick count unchanged; the completion callback
\* goes on as for any frame, and the registered consumer is handed the frame
\* with that raw value as its timestamp.
C21_RawTicksWhenFrequencyUnknown ==
  ~FrequencyKnown =>
     /\ StampAssigned => msg.stamp = vmb_frame_.timestamp
     /\ fpc # "returned" => ENABLED FrameNext
     /\ (fpc = "returned" /\ frameObj.callback_) =>
          (invoked = 1 /\ seen.stamp = vmb_frame_.timestamp)

C21_Witness ==
  /\ fpc = "returned" /\ invoked = 1
  /\ ~frameObj.expired /\ device.err # VmbErrorSuccess
  /\ device.timestampFrequency = 2000000000
  /\ vmb_frame_.timestamp = << 0, 40, 107, 238, 0, 0, 0, 0 >>
  /\ seen.stamp = << 0, 40, 107, 238, 0, 0, 0, 0 >>

\* the positions of start_streaming inside its two loops over frames_
PoolLoopPcs == {"start_create", "start_queue"}

\* the running thread's step neither clears nor resizes the pool, nor resets
\* one of its entries, while the other thread is inside a loop over it
PoolKeptUnderLoop ==
  other.pc \in PoolLoopPcs =>
     /\ Len(frames_') = Len(frames_)
     /\ \A i \in 1 .. Len(frames_) : frames_[i] # 0 => frames_'[i] = frames_[i]

\* once both threads have returned, is_streaming() true means a pool with
\* every buffer created and announced
PoolWholeWhenStreaming ==
  (pc = "idle" /\ other.pc = "idle" /\ streaming_) =>
     /\ frames_ # << >>
     /\ \A i \in 1 .. Len(frames_) : frames_[i] # 0
     /\ PoolFrames \subseteq announced

\* C22: start_streaming and stop_streaming calls (or two start_streaming
\* calls) running on two threads do not interleave on the streaming flag and
\* the buffer pool: no call clears or resizes the pool while the other one is
\* filling or queueing it, and no execution ends with is_streaming() true and
\* an empty or partly filled pool.
C22_CallsDoNotInterleave ==
  /\ []PoolWholeWhenStreaming
  /\ [][PoolKeptUnderLoop]_vars

====
